---- MODULE Spec2Model ----
(***************************************************************************)
(* Model of the anime review API (backend/main.py, backend/database.py).   *)
(*                                                                         *)
(* The state is the SQLite database (tables anime and reviews with their   *)
(* AUTOINCREMENT counters) and, for every request in flight, the position  *)
(* of its handler coroutine, its locals, its connection and its response.  *)
(* A handler is split exactly at the storage statements it awaits: the     *)
(* Python code between two awaits runs without interleaving (asyncio), a   *)
(* statement together with its commit is one step (SQLite serialises       *)
(* writers), and get_db() and db.close(), which touch nothing another      *)
(* request can see, are taken together with the statement after and before *)
(* them.                                                                   *)
(* A connection that is left open after a statement of its transaction     *)
(* failed keeps the write lock of the database file (write_lock): the      *)
(* writes of every later connection then fail with "database is locked".  *)
(* A request that ends is recorded in `last` for one step: its slot is     *)
(* free at once, as nothing in the program keeps a finished request.       *)
(* created_at, description and user_name are not modelled: no handler      *)
(* branches on them.                                                       *)
(***************************************************************************)
EXTENDS Integers, Sequences, FiniteSets, TLC

\* ---------------------------------------------------------------- bounds
NumProcs == 2          \* requests that can be in flight together
MaxRequests == 4       \* POST, PATCH and DELETE requests served in one behaviour
MaxId == 2             \* rows inserted per table; requests name the ids 1..MaxId

Procs == 1..NumProcs
Ids == 1..MaxId

\* ---------------------------------------------------------------- values
\* Optional[T]: None is the empty tuple, a present value v is <<v>>.
None == <<>>
Some(v) == <<v>>

\* Title strings are tuples of characters so that TRIM and LOWER can be computed.
TitleNaruto == <<"N", "a">>
TitleNarutoAlt == <<" ", "n", "a", " ">>
TitleBleach == <<"B">>
TitleInputs == {TitleNaruto, TitleNarutoAlt, TitleBleach}

RatingInputs == {-1, 0, 10, 11}
StatusInputs == {"watched", "planning", "dropped"}

\* The bodies of the PATCH requests: [rating, review_text, status], each optional.
Patch(rating, review_text, status) ==
    [rating |-> rating, review_text |-> review_text, status |-> status]

UpdateInputs ==
    {Patch(None, None, Some("planning")),
     Patch(Some(10), None, None),
     Patch(Some(0), None, Some("planning")),
     Patch(Some(10), None, Some("watched")),
     Patch(None, Some("t"), None),
     Patch(None, None, Some("dropped")),
     Patch(None, None, Some("")),
     Patch(Some(11), None, None)}

VARIABLES
    foreign_keys,   \* whether this SQLite build enforces FOREIGN KEY clauses
    anime,          \* table anime: set of rows [id, title]
    anime_seq,      \* sqlite_sequence of anime (AUTOINCREMENT never reuses an id)
    reviews,        \* table reviews: set of rows [id, anime_id, rating, review_text, status]
    reviews_seq,    \* sqlite_sequence of reviews
    write_lock,     \* a connection that was never closed holds an open write transaction
    pc,             \* pc[p]: position of the handler serving request p
    req,            \* req[p]: the request (path parameters and body)
    local,          \* local[p]: the handler's locals read from storage
    conn,           \* conn[p]: "none" or "open": the connection get_db() gave the handler
    issued,         \* issued[p]: the mutating statements the handler has executed
    last,           \* the request that ended in the last step, if one did:
                    \* Some([req, code, body, conn, issued]), else None
    served          \* number of POST, PATCH and DELETE requests started so far

vars == <<foreign_keys, anime, anime_seq, reviews, reviews_seq, write_lock,
          pc, req, local, conn, issued, last, served>>

tables == <<foreign_keys, anime, anime_seq, reviews, reviews_seq>>

db == <<tables, write_lock>>

\* ---------------------------------------------------------------- schema (database.py)
\* CHECK(rating >= 0 AND rating <= 10)
CheckRating(rating) == rating >= 0 /\ rating <= 10

\* CHECK(status IN ('watched', 'planning'))
CheckStatus(status) == status \in {"watched", "planning"}

\* Mutant of UniqueTitleViolated: the anime table without its UNIQUE constraint
UniqueTitleViolated_NoConstraint(title) == FALSE

\* title TEXT NOT NULL UNIQUE: the INSERT of a title already stored fails
UniqueTitleViolated(title) == \E a \in anime : a.title = title

\* FOREIGN KEY (anime_id) REFERENCES anime(id): checked on INSERT only when the
\* connection has foreign keys on. get_db() issues no PRAGMA foreign_keys, so the
\* setting is the build's default (SQLITE_DEFAULT_FOREIGN_KEYS, normally 0).
ForeignKeyViolated(anime_id) ==
    foreign_keys /\ ~(\E a \in anime : a.id = anime_id)

\* ON DELETE CASCADE: the reviews left after DELETE FROM anime WHERE id = anime_id
CascadeDelete(anime_id) ==
    IF foreign_keys THEN {r \in reviews : r.anime_id # anime_id} ELSE reviews

\* A write statement of another connection cannot take the lock within the
\* timeout of sqlite3.connect: OperationalError "database is locked".
DatabaseLocked == write_lock

\* SELECT ... WHERE id = ? with fetchone(): None or the row
SelectById(table, id) ==
    IF \E row \in table : row.id = id
    THEN Some(CHOOSE row \in table : row.id = id)
    ELSE None

\* ---------------------------------------------------------------- pydantic models (main.py)
\* ReviewCreate.validate_rating
CreateValidateRating(v) == ~(v < 0 \/ v > 10)

\* ReviewCreate.validate_status
CreateValidateStatus(v) == v \in {"watched", "planning"}

\* ReviewCreate.validate_rating_with_status: `values` holds the fields validated
\* before rating. The fields are validated in declaration order and status is
\* declared after rating, so values.get('status') is None when this runs.
CreateValidateRatingWithStatus(v, values) ==
    LET status == IF "status" \in DOMAIN values THEN Some(values["status"]) ELSE None
    IN ~(status = Some("planning") /\ v > 0)

\* The whole ReviewCreate validation: TRUE when the body is accepted.
ReviewCreateValid(body) ==
    LET values == [f \in {"anime_id"} |-> body.anime_id]
    IN /\ CreateValidateRating(body.rating)
       /\ CreateValidateRatingWithStatus(body.rating, values)
       /\ CreateValidateStatus(body.status)

\* ReviewUpdate.validate_rating (not run for an absent rating); status and
\* review_text have no validator.
ReviewUpdateValid(body) ==
    IF body.rating = None THEN TRUE ELSE ~(body.rating[1] < 0 \/ body.rating[1] > 10)

\* ---------------------------------------------------------------- initial state
Init ==
    /\ foreign_keys \in BOOLEAN
    /\ anime = {}
    /\ anime_seq = 0
    /\ reviews = {}
    /\ reviews_seq = 0
    /\ write_lock = FALSE
    /\ pc = [p \in Procs |-> "idle"]
    /\ req = [p \in Procs |-> None]
    /\ local = [p \in Procs |-> None]
    /\ conn = [p \in Procs |-> "none"]
    /\ issued = [p \in Procs |-> <<>>]
    /\ last = None
    /\ served = 0

\* Requests take the lowest free slot (slots are interchangeable).
FreeSlot(p) ==
    /\ pc[p] = "idle"
    /\ \A q \in Procs : q < p => pc[q] # "idle"

\* A GET request arrives.
CanRead(p) == FreeSlot(p) /\ served' = served

\* A POST, PATCH or DELETE request arrives.
CanStart(p) == FreeSlot(p) /\ served < MaxRequests /\ served' = served + 1

\* The handler is entered (get_db() opens the request's connection) and stays
\* in flight after its first statement.
Enter(p, request, at, result) ==
    /\ pc' = [pc EXCEPT ![p] = at]
    /\ req' = [req EXCEPT ![p] = Some(request)]
    /\ local' = [local EXCEPT ![p] = result]
    /\ conn' = [conn EXCEPT ![p] = "open"]
    /\ last' = None

\* The request ends within its first step: the response, the state of the
\* connection it got ("none" when the handler was never entered), and the
\* mutating statements it executed.
Respond(request, code, body, connection, statements) ==
    /\ last' = Some([req |-> request, code |-> code, body |-> body,
                     conn |-> connection, issued |-> statements])
    /\ UNCHANGED <<pc, req, local, conn, issued>>

\* The request body fails pydantic validation: FastAPI answers 422 and the
\* handler is never entered.
Unprocessable(request) ==
    /\ Respond(request, 422, None, "none", <<>>)
    /\ UNCHANGED db

\* The handler goes on to its next statement.
Goto(p, at) ==
    /\ pc' = [pc EXCEPT ![p] = at]
    /\ last' = None

\* The handler returns or raises: the response, whether db.close() ran, and the
\* mutating statements it executed.
Finish(p, code, body, closed, statements) ==
    /\ last' = Some([req |-> req[p][1], code |-> code, body |-> body,
                     conn |-> IF closed THEN "closed" ELSE conn[p],
                     issued |-> statements])
    /\ pc' = [pc EXCEPT ![p] = "idle"]
    /\ req' = [req EXCEPT ![p] = None]
    /\ local' = [local EXCEPT ![p] = None]
    /\ conn' = [conn EXCEPT ![p] = "none"]
    /\ issued' = [issued EXCEPT ![p] = <<>>]

Request(p) == req[p][1]

\* The INSERTs still to come from the handlers in flight that are at one of `at`
Pending(at) == Cardinality({q \in Procs : pc[q] \in at})

\* ---------------------------------------------------------------- SQL helpers
RECURSIVE SumRating(_)
\* SUM of the rating column over a set of review rows
SumRating(rows) ==
    IF rows = {} THEN 0
    ELSE LET r == CHOOSE x \in rows : TRUE
         IN r.rating + SumRating(rows \ {r})

RECURSIVE GCD(_, _)
GCD(a, b) == IF b = 0 THEN a ELSE GCD(b, a % b)

\* The number sum / cnt (ratings are never negative), kept exact as the reduced
\* fraction <<numerator, denominator>>.
Quotient(sum, cnt) ==
    LET g == GCD(sum, cnt) IN <<sum \div g, cnt \div g>>

\* AVG(...) over the non-NULL values of a group: NULL when there is none.
Avg(rows) ==
    IF rows = {} THEN None ELSE Some(Quotient(SumRating(rows), Cardinality(rows)))

\* x < y for two AVG values that are not NULL
AvgLess(x, y) == x[1][1] * y[1][2] < y[1][1] * x[1][2]

\* FROM anime a LEFT JOIN reviews r ON a.id = r.anime_id: a row per matching
\* pair, and a row with r NULL for an anime without reviews.
LeftJoin ==
    {[a |-> a, r |-> Some(r)] : <<a, r>> \in {x \in anime \X reviews : x[1].id = x[2].anime_id}}
    \cup {[a |-> a, r |-> None] : a \in {x \in anime : ~(\E r \in reviews : r.anime_id = x.id)}}

\* Mutant of CaseWatched: AVG(r.rating) without the CASE on the status
CaseWatched_AnyStatus(row) == row.r # None

\* CASE WHEN r.status = 'watched' THEN r.rating ELSE NULL END is not NULL
CaseWatched(row) == row.r # None /\ row.r[1].status = "watched"

\* The row of the aggregate query of get_all_anime / get_anime for one anime
\* (one GROUP BY a.id group of the LEFT JOIN).
AggregateRow(a) ==
    LET group == {row \in LeftJoin : row.a.id = a.id}
    IN [id |-> a.id,
        title |-> a.title,
        average_rating |-> Avg({row.r[1] : row \in {x \in group : CaseWatched(x)}}),
        total_reviews |-> Cardinality({row \in group : row.r # None})]

\* LOWER(x): SQLite folds ASCII letters
Lower(s) ==
    [i \in DOMAIN s |-> CASE s[i] = "N" -> "n" [] s[i] = "B" -> "b" [] OTHER -> s[i]]

RECURSIVE LTrim(_)
LTrim(s) == IF s # <<>> /\ Head(s) = " " THEN LTrim(Tail(s)) ELSE s

RECURSIVE RTrim(_)
RTrim(s) == IF s # <<>> /\ s[Len(s)] = " " THEN RTrim(SubSeq(s, 1, Len(s) - 1)) ELSE s

\* TRIM(x): removes spaces from both ends
Trim(s) == RTrim(LTrim(s))

\* LOWER(TRIM(a.title)) as normalized_title
NormalizedTitle(title) == Lower(Trim(title))

\* FROM anime a INNER JOIN reviews r ON a.id = r.anime_id WHERE r.status = 'watched'
StatsJoin ==
    {[a |-> x[1], r |-> x[2]] :
        x \in {y \in anime \X reviews : y[1].id = y[2].anime_id /\ y[2].status = "watched"}}

\* GROUP BY normalized_title: the keys of the groups
StatsKeys == {NormalizedTitle(row.a.title) : row \in StatsJoin}

StatsGroup(key) == {row \in StatsJoin : NormalizedTitle(row.a.title) = key}

\* The result row of one group; display_title is a bare column of an aggregate
\* query, so it is taken from some row of the group (display).
StatsRow(key, display) ==
    [title |-> display,
     average_rating |-> Avg({row.r : row \in StatsGroup(key)}),
     review_count |-> Cardinality({row.r.id : row \in StatsGroup(key)})]

\* HAVING COUNT(r.id) > 0
Having(row) == row.review_count > 0

\* Mutant of InsertDesc: ORDER BY average_rating (ascending)
RECURSIVE InsertAsc(_, _)
InsertAsc(row, sorted) ==
    IF sorted = <<>> THEN <<row>>
    ELSE IF AvgLess(row.average_rating, Head(sorted).average_rating)
         THEN <<row>> \o sorted
         ELSE <<Head(sorted)>> \o InsertAsc(row, Tail(sorted))

\* ORDER BY average_rating DESC: where the sorter puts `row` into a sorted list
\* (after the rows that do not sort below it).
RECURSIVE InsertDesc(_, _)
InsertDesc(row, sorted) ==
    IF sorted = <<>> THEN <<row>>
    ELSE IF AvgLess(Head(sorted).average_rating, row.average_rating)
         THEN <<row>> \o sorted
         ELSE <<Head(sorted)>> \o InsertDesc(row, Tail(sorted))

RECURSIVE OrderByDesc(_)
OrderByDesc(rows) ==
    IF rows = <<>> THEN <<>>
    ELSE InsertDesc(rows[Len(rows)], OrderByDesc(SubSeq(rows, 1, Len(rows) - 1)))

\* The orders in which the groups of a set can reach the sorter
Orders(S) ==
    {s \in [1..Cardinality(S) -> S] : \A i, j \in DOMAIN s : i # j => s[i] # s[j]}

\* ---------------------------------------------------------------- POST /api/anime
CreateAnimeRequests == {[op |-> "create_anime", title |-> title] : title \in TitleInputs}

\* INSERT INTO anime (title, description) raises (the UNIQUE constraint, or the
\* database is locked): the except branch closes the connection and raises 400.
create_anime_insert_fails(p) ==
    /\ CanStart(p)
    /\ \E request \in CreateAnimeRequests :
        /\ UniqueTitleViolated(request.title) \/ DatabaseLocked
        /\ Respond(request, 400, None, "closed", <<"INSERT">>)
    /\ UNCHANGED db

\* INSERT INTO anime (title, description); commit; anime_id = cursor.lastrowid
create_anime_insert(p) ==
    /\ CanStart(p)
    /\ anime_seq < MaxId
    /\ ~DatabaseLocked
    /\ \E request \in CreateAnimeRequests :
        /\ ~UniqueTitleViolated(request.title)
        /\ anime' = anime \cup {[id |-> anime_seq + 1, title |-> request.title]}
        /\ Enter(p, request, "ca_select", Some(anime_seq + 1))
    /\ anime_seq' = anime_seq + 1
    /\ issued' = [issued EXCEPT ![p] = <<"INSERT">>]
    /\ UNCHANGED <<foreign_keys, reviews, reviews_seq, write_lock>>

\* SELECT ... FROM anime WHERE id = ?; db.close(); return dict(row)
\* (dict(None) raises when the row was deleted meanwhile: 500).
create_anime_return(p) ==
    /\ pc[p] = "ca_select"
    /\ LET row == SelectById(anime, local[p][1])
       IN IF row = None
          THEN Finish(p, 500, None, TRUE, issued[p])
          ELSE Finish(p, 200, Some([id |-> row[1].id, title |-> row[1].title,
                                    average_rating |-> None, total_reviews |-> 0]),
                      TRUE, issued[p])
    /\ UNCHANGED <<db, served>>

\* ---------------------------------------------------------------- DELETE /api/anime/{anime_id}
\* DELETE FROM anime WHERE id=?; commit; close; return {"ok": True}
delete_anime(p) ==
    /\ CanStart(p)
    /\ ~DatabaseLocked
    /\ \E anime_id \in Ids :
        /\ anime' = {a \in anime : a.id # anime_id}
        /\ reviews' = CascadeDelete(anime_id)
        /\ Respond([op |-> "delete_anime", anime_id |-> anime_id],
                   200, None, "closed", <<"DELETE">>)
    /\ UNCHANGED <<foreign_keys, anime_seq, reviews_seq, write_lock>>

\* DELETE FROM anime WHERE id=? raises (the database is locked): nothing is
\* caught and db.close() is not reached.
delete_anime_fails(p) ==
    /\ CanStart(p)
    /\ DatabaseLocked
    /\ \E anime_id \in Ids :
        Respond([op |-> "delete_anime", anime_id |-> anime_id],
                500, None, "open", <<"DELETE">>)
    /\ UNCHANGED db

\* ---------------------------------------------------------------- DELETE /api/reviews/{review_id}
\* DELETE FROM reviews WHERE id=?; commit; close; return {"ok": True}
delete_review(p) ==
    /\ CanStart(p)
    /\ ~DatabaseLocked
    /\ \E review_id \in Ids :
        /\ reviews' = {r \in reviews : r.id # review_id}
        /\ Respond([op |-> "delete_review", review_id |-> review_id],
                   200, None, "closed", <<"DELETE">>)
    /\ UNCHANGED <<foreign_keys, anime, anime_seq, reviews_seq, write_lock>>

\* DELETE FROM reviews WHERE id=? raises (the database is locked): nothing is
\* caught and db.close() is not reached.
delete_review_fails(p) ==
    /\ CanStart(p)
    /\ DatabaseLocked
    /\ \E review_id \in Ids :
        Respond([op |-> "delete_review", review_id |-> review_id],
                500, None, "open", <<"DELETE">>)
    /\ UNCHANGED db

\* ---------------------------------------------------------------- POST /api/reviews
\* if review.status == 'planning' and review.rating > 0
PlanningRated(status, rating) == status = "planning" /\ rating > 0

CreateReviewRequests ==
    {[op |-> "create_review", anime_id |-> anime_id, rating |-> rating,
      review_text |-> None, status |-> status] :
        anime_id \in Ids, rating \in RatingInputs, status \in StatusInputs}

\* the body is not a ReviewCreate: 422
create_review_unprocessable(p) ==
    /\ CanStart(p)
    /\ \E request \in CreateReviewRequests :
        /\ ~ReviewCreateValid(request)
        /\ Unprocessable(request)

\* SELECT id FROM anime WHERE id = ?; not anime_exists: close, 404
create_review_not_found(p) ==
    /\ CanStart(p)
    /\ \E request \in CreateReviewRequests :
        /\ ReviewCreateValid(request)
        /\ SelectById(anime, request.anime_id) = None
        /\ Respond(request, 404, None, "closed", <<>>)
    /\ UNCHANGED db

\* the anime exists, the planning rule fails: close, 400
create_review_planning_rated(p) ==
    /\ CanStart(p)
    /\ \E request \in CreateReviewRequests :
        /\ ReviewCreateValid(request)
        /\ SelectById(anime, request.anime_id) # None
        /\ PlanningRated(request.status, request.rating)
        /\ Respond(request, 400, None, "closed", <<>>)
    /\ UNCHANGED db

\* the anime exists and the planning rule holds: go on to the INSERT
create_review_checked(p) ==
    /\ CanStart(p)
    /\ reviews_seq + Pending({"cr_insert"}) < MaxId
    /\ \E request \in CreateReviewRequests :
        /\ ReviewCreateValid(request)
        /\ SelectById(anime, request.anime_id) # None
        /\ ~PlanningRated(request.status, request.rating)
        /\ Enter(p, request, "cr_insert", None)
    /\ UNCHANGED <<db, issued>>

\* INSERT INTO reviews raises (the database is locked, or a constraint of the
\* table): the exception leaves the handler, nothing is caught and db.close()
\* is not reached. After a constraint failure the connection's transaction,
\* begun for the INSERT, stays open with the write lock.
create_review_insert_fails(p) ==
    /\ pc[p] = "cr_insert"
    /\ \/ DatabaseLocked
       \/ ForeignKeyViolated(Request(p).anime_id)
       \/ ~CheckRating(Request(p).rating)
       \/ ~CheckStatus(Request(p).status)
    /\ write_lock' = TRUE
    /\ Finish(p, 500, None, FALSE, Append(issued[p], "INSERT"))
    /\ UNCHANGED <<tables, served>>

\* INSERT INTO reviews (...); commit; review_id = cursor.lastrowid
create_review_insert(p) ==
    /\ pc[p] = "cr_insert"
    /\ ~DatabaseLocked
    /\ ~ForeignKeyViolated(Request(p).anime_id)
    /\ CheckRating(Request(p).rating)
    /\ CheckStatus(Request(p).status)
    /\ reviews' = reviews \cup {[id |-> reviews_seq + 1,
                                 anime_id |-> Request(p).anime_id,
                                 rating |-> Request(p).rating,
                                 review_text |-> Request(p).review_text,
                                 status |-> Request(p).status]}
    /\ reviews_seq' = reviews_seq + 1
    /\ local' = [local EXCEPT ![p] = Some(reviews_seq + 1)]
    /\ issued' = [issued EXCEPT ![p] = Append(@, "INSERT")]
    /\ Goto(p, "cr_return")
    /\ UNCHANGED <<foreign_keys, anime, anime_seq, write_lock, req, conn, served>>

\* SELECT * FROM reviews WHERE id = ?; db.close(); return dict(row)
create_review_return(p) ==
    /\ pc[p] = "cr_return"
    /\ LET row == SelectById(reviews, local[p][1])
       IN IF row = None
          THEN Finish(p, 500, None, TRUE, issued[p])
          ELSE Finish(p, 200, row, TRUE, issued[p])
    /\ UNCHANGED <<db, served>>

\* ---------------------------------------------------------------- PATCH /api/reviews/{review_id}
\* `if review_update.status`: an absent status and the empty string are falsy
Truthy(status) == status # None /\ status # Some("")

\* current_status = review_update.status if review_update.status else current_review['status']
MergedStatus(update, current_review) ==
    IF Truthy(update.status) THEN update.status[1] ELSE current_review.status

\* Mutant of MergedRating: an absent rating counts as 0 instead of the stored one
MergedRating_IgnoresStored(update, current_review) ==
    IF update.rating # None THEN update.rating[1] ELSE 0

\* new_rating = review_update.rating if review_update.rating is not None else current_review['rating']
MergedRating(update, current_review) ==
    IF update.rating # None THEN update.rating[1] ELSE current_review.rating

\* if current_status == 'planning' and new_rating > 0
UpdateRejected(update, current_review) ==
    PlanningRated(MergedStatus(update, current_review), MergedRating(update, current_review))

\* update_parts is not empty
HasUpdateParts(update) ==
    update.rating # None \/ update.review_text # None \/ Truthy(update.status)

\* The row that UPDATE reviews SET ... WHERE id = ? writes in place of `row`
Updated(update, row) ==
    [row EXCEPT !.rating = IF update.rating # None THEN update.rating[1] ELSE @,
                !.review_text = IF update.review_text # None THEN update.review_text ELSE @,
                !.status = IF Truthy(update.status) THEN update.status[1] ELSE @]

UpdateReviewRequests ==
    {[op |-> "update_review", review_id |-> review_id, rating |-> update.rating,
      review_text |-> update.review_text, status |-> update.status] :
        review_id \in Ids, update \in UpdateInputs}

\* the body is not a ReviewUpdate: 422
update_review_unprocessable(p) ==
    /\ CanStart(p)
    /\ \E request \in UpdateReviewRequests :
        /\ ~ReviewUpdateValid(request)
        /\ Unprocessable(request)

\* SELECT * FROM reviews WHERE id = ?; not current_review: close, 404
update_review_not_found(p) ==
    /\ CanStart(p)
    /\ \E request \in UpdateReviewRequests :
        /\ ReviewUpdateValid(request)
        /\ SelectById(reviews, request.review_id) = None
        /\ Respond(request, 404, None, "closed", <<>>)
    /\ UNCHANGED db

\* the merged view breaks the planning rule: close, 400
update_review_rejected(p) ==
    /\ CanStart(p)
    /\ \E request \in UpdateReviewRequests :
        /\ ReviewUpdateValid(request)
        /\ SelectById(reviews, request.review_id) # None
        /\ UpdateRejected(request, SelectById(reviews, request.review_id)[1])
        /\ Respond(request, 400, None, "closed", <<>>)
    /\ UNCHANGED db

\* the merged view passes: on to the UPDATE, or past it when update_parts is empty
update_review_checked(p) ==
    /\ CanStart(p)
    /\ \E request \in UpdateReviewRequests :
        /\ ReviewUpdateValid(request)
        /\ SelectById(reviews, request.review_id) # None
        /\ ~UpdateRejected(request, SelectById(reviews, request.review_id)[1])
        /\ Enter(p, request, IF HasUpdateParts(request) THEN "ur_update" ELSE "ur_return",
                 SelectById(reviews, request.review_id))
    /\ UNCHANGED <<db, issued>>

\* UPDATE reviews SET ... WHERE id = ? raises (the database is locked, or the
\* new row breaks a CHECK of the table): the exception leaves the handler,
\* nothing is caught, db.close() is not reached. After a CHECK failure the
\* connection's transaction, begun for the UPDATE, stays open with the write lock.
update_review_update_fails(p) ==
    /\ pc[p] = "ur_update"
    /\ LET row == SelectById(reviews, Request(p).review_id)
       IN \/ DatabaseLocked
          \/ /\ row # None
             /\ \/ ~CheckRating(Updated(Request(p), row[1]).rating)
                \/ ~CheckStatus(Updated(Request(p), row[1]).status)
    /\ write_lock' = TRUE
    /\ Finish(p, 500, None, FALSE, Append(issued[p], "UPDATE"))
    /\ UNCHANGED <<tables, served>>

\* UPDATE reviews SET ... WHERE id = ?; commit (no row is written when the
\* Review was deleted after the SELECT)
update_review_update(p) ==
    /\ pc[p] = "ur_update"
    /\ ~DatabaseLocked
    /\ LET row == SelectById(reviews, Request(p).review_id)
       IN IF row = None
          THEN reviews' = reviews
          ELSE /\ CheckRating(Updated(Request(p), row[1]).rating)
               /\ CheckStatus(Updated(Request(p), row[1]).status)
               /\ reviews' = (reviews \ {row[1]}) \cup {Updated(Request(p), row[1])}
    /\ issued' = [issued EXCEPT ![p] = Append(@, "UPDATE")]
    /\ Goto(p, "ur_return")
    /\ UNCHANGED <<foreign_keys, anime, anime_seq, reviews_seq, write_lock,
                   req, local, conn, served>>

\* SELECT * FROM reviews WHERE id = ?; db.close(); return dict(row)
update_review_return(p) ==
    /\ pc[p] = "ur_return"
    /\ LET row == SelectById(reviews, Request(p).review_id)
       IN IF row = None
          THEN Finish(p, 500, None, TRUE, issued[p])
          ELSE Finish(p, 200, row, TRUE, issued[p])
    /\ UNCHANGED <<db, served>>

\* ---------------------------------------------------------------- GET /api/anime
\* the aggregate SELECT over all anime; db.close(); the rows (their order, by
\* created_at, is not modelled)
get_all_anime(p) ==
    /\ CanRead(p)
    /\ Respond([op |-> "get_all_anime"], 200, Some({AggregateRow(a) : a \in anime}),
               "closed", <<>>)
    /\ UNCHANGED db

\* ---------------------------------------------------------------- GET /api/anime/{anime_id}
\* the aggregate SELECT ... WHERE a.id = ?; not anime_row: close, 404
get_anime_not_found(p) ==
    /\ CanRead(p)
    /\ \E anime_id \in Ids :
        /\ SelectById(anime, anime_id) = None
        /\ Respond([op |-> "get_anime", anime_id |-> anime_id], 404, None, "closed", <<>>)
    /\ UNCHANGED db

\* the aggregate SELECT ... WHERE a.id = ? finds the anime: anime_row
get_anime_aggregate(p) ==
    /\ CanRead(p)
    /\ \E anime_id \in Ids :
        /\ SelectById(anime, anime_id) # None
        /\ Enter(p, [op |-> "get_anime", anime_id |-> anime_id], "ga_reviews",
                 Some(AggregateRow(SelectById(anime, anime_id)[1])))
    /\ UNCHANGED <<db, issued>>

\* SELECT ... FROM reviews WHERE anime_id = ?; db.close(); return
get_anime_return(p) ==
    /\ pc[p] = "ga_reviews"
    /\ Finish(p, 200, Some([anime |-> local[p][1],
                            reviews |-> {r \in reviews : r.anime_id = Request(p).anime_id}]),
              TRUE, issued[p])
    /\ UNCHANGED <<db, served>>

\* ---------------------------------------------------------------- GET /api/stats
\* The rows of the stats query: the groups reach the sorter in some order, each
\* with the display_title of one of its rows.
StatsResults ==
    {OrderByDesc(SelectSeq([i \in DOMAIN order |-> StatsRow(order[i], display[order[i]])], Having)) :
        <<order, display>> \in
            Orders(StatsKeys) \X
            {d \in [StatsKeys -> {a.title : a \in anime}] :
                \A k \in StatsKeys : \E row \in StatsGroup(k) : row.a.title = d[k]}}

\* the stats SELECT; db.close(); return result
get_stats(p) ==
    /\ CanRead(p)
    /\ \E result \in StatsResults :
        Respond([op |-> "get_stats"], 200, Some(result), "closed", <<>>)
    /\ UNCHANGED db

\* ---------------------------------------------------------------- specification
Next ==
    \E p \in Procs :
        \/ create_anime_insert_fails(p)
        \/ create_anime_insert(p)
        \/ create_anime_return(p)
        \/ delete_anime(p)
        \/ delete_anime_fails(p)
        \/ delete_review(p)
        \/ delete_review_fails(p)
        \/ create_review_unprocessable(p)
        \/ create_review_not_found(p)
        \/ create_review_planning_rated(p)
        \/ create_review_checked(p)
        \/ create_review_insert_fails(p)
        \/ create_review_insert(p)
        \/ create_review_return(p)
        \/ update_review_unprocessable(p)
        \/ update_review_not_found(p)
        \/ update_review_rejected(p)
        \/ update_review_checked(p)
        \/ update_review_update_fails(p)
        \/ update_review_update(p)
        \/ update_review_return(p)
        \/ get_all_anime(p)
        \/ get_anime_not_found(p)
        \/ get_anime_aggregate(p)
        \/ get_anime_return(p)
        \/ get_stats(p)

Spec == Init /\ [][Next]_vars


\* ---------------------------------------------------------------- properties
\* The request that ended in this state was a call of `op`.
Ended(op) == IF last = None THEN FALSE ELSE last[1].req.op = op

\* The body of a PATCH request that provides only status = planning
OnlyPlanning(request) ==
    /\ request.op = "update_review"
    /\ request.rating = None
    /\ request.review_text = None
    /\ request.status = Some("planning")

\* The stored Review with this id, if there is one
Stored(review_id) == {r \in reviews : r.id = review_id}

\* C1: every stored Review whose status is planning has rating exactly 0, also
\* when two update_review requests on the same Review interleave.
C1_PlanningIsUnrated ==
    \A r \in reviews : r.status = "planning" => r.rating = 0

\* C2: once delete_anime(t) has completed for a stored Title t, no Review with
\* anime_id = t is stored.
C2_DeleteCascades ==
    [][(/\ Ended("delete_anime")'
        /\ last'[1].code = 200
        /\ \E a \in anime : a.id = last'[1].req.anime_id)
          => ~(\E r \in reviews' : r.anime_id = last'[1].req.anime_id)]_vars

\* C3: an update_review that provides only status = planning on a stored Review
\* with rating > 0 is never taken on to the UPDATE: it ends at once with 400,
\* having executed no mutating statement, and the reviews table is as before.
C3_MergedViewRejects ==
    [][/\ \A p \in Procs :
            (pc[p] = "idle" /\ pc'[p] \in {"ur_update", "ur_return"}
                /\ OnlyPlanning(req'[p][1]))
            => \A r \in Stored(req'[p][1].review_id) : r.rating = 0
       /\ (pc' = pc /\ Ended("update_review")' /\ OnlyPlanning(last'[1].req)
              /\ \E r \in Stored(last'[1].req.review_id) : r.rating > 0)
            => /\ last'[1].code = 400
               /\ last'[1].issued = <<>>
               /\ reviews' = reviews]_vars

\* C3 witness: the request was rejected and the Review still has its rating.
C3_Witness ==
    /\ Ended("update_review")
    /\ OnlyPlanning(last[1].req)
    /\ last[1].code = 400
    /\ \E r \in Stored(last[1].req.review_id) : r.rating > 0 /\ r.status = "watched"

\* What the specification accepts as a new Review
Acceptable(request) ==
    /\ request.rating >= 0
    /\ request.rating <= 10
    /\ request.status \in {"watched", "planning"}
    /\ ~(request.status = "planning" /\ request.rating > 0)

\* C4: a create_review that references a stored Title is taken on to the INSERT
\* exactly when it is acceptable, the INSERT stores it as long as the Title is
\* still there, and a request that is turned down leaves the reviews table as
\* it was.
C4_CreateAcceptsExactlyValid ==
    [][/\ \A p \in Procs :
            (pc[p] = "idle" /\ pc'[p] = "cr_insert")
            => /\ Acceptable(req'[p][1])
               /\ \E a \in anime : a.id = req'[p][1].anime_id
               /\ reviews' = reviews
       /\ (pc' = pc /\ Ended("create_review")'
              /\ \E a \in anime : a.id = last'[1].req.anime_id)
            => /\ ~Acceptable(last'[1].req)
               /\ last'[1].code \in {400, 422}
               /\ reviews' = reviews
       /\ \A p \in Procs :
            (pc[p] = "cr_insert" /\ pc'[p] # "cr_insert"
                /\ \E a \in anime : a.id = req[p][1].anime_id)
            => /\ pc'[p] = "cr_return"
               /\ \E r \in reviews' \ reviews :
                    /\ reviews' = reviews \cup {r}
                    /\ r.anime_id = req[p][1].anime_id
                    /\ r.rating = req[p][1].rating
                    /\ r.status = req[p][1].status]_vars

\* C5: a create_review whose anime_id is not the id of a stored Title when its
\* INSERT runs ends with 404 and stores nothing.
C5_NoReviewWithoutTitle ==
    [][\A p \in Procs :
          (pc[p] = "cr_insert" /\ pc'[p] # "cr_insert"
              /\ ~(\E a \in anime : a.id = req[p][1].anime_id))
          => /\ reviews' = reviews
             /\ Ended("create_review")'
             /\ last'[1].code = 404]_vars

RECURSIVE RatingTotal(_)
\* The sum of the ratings of a set of Reviews
RatingTotal(rs) ==
    IF rs = {} THEN 0
    ELSE LET r == CHOOSE x \in rs : TRUE IN r.rating + RatingTotal(rs \ {r})

\* The aggregate `agg` is the one the specification gives for the stored Reviews
AggregateCorrect(agg) ==
    LET all == {r \in reviews : r.anime_id = agg.id}
        watched == {r \in all : r.status = "watched"}
    IN /\ agg.total_reviews = Cardinality(all)
       /\ (agg.average_rating = None) <=> (watched = {})
       /\ watched # {} =>
            agg.average_rating[1][1] * Cardinality(watched)
                = RatingTotal(watched) * agg.average_rating[1][2]

\* C6: the aggregate that get_anime and get_all_anime return has average_rating
\* null exactly when the Title has no watched Review, else the mean of the
\* ratings of its watched Reviews, and total_reviews counts all its Reviews.
C6_AggregateIsWatchedMean ==
    [][/\ \A p \in Procs :
            (pc[p] = "idle" /\ pc'[p] = "ga_reviews")
            => /\ local'[p][1].id = req'[p][1].anime_id
               /\ AggregateCorrect(local'[p][1])
       /\ \A p \in Procs :
            (pc[p] = "ga_reviews" /\ pc'[p] = "idle")
            => last'[1].body[1].anime = local[p][1]
       /\ (pc' = pc /\ Ended("get_all_anime")')
            => /\ {agg.id : agg \in last'[1].body[1]} = {a.id : a \in anime}
               /\ \A agg \in last'[1].body[1] : AggregateCorrect(agg)]_vars

\* C6 witness: get_anime answered for a Title that has a watched and a planning
\* Review.
C6_Witness ==
    /\ Ended("get_anime")
    /\ last[1].code = 200
    /\ last[1].body[1].anime.average_rating = Some(<<10, 1>>)
    /\ last[1].body[1].anime.total_reviews = 2

\* The normalized key the specification gives each title of the inputs
KeyOf(title) ==
    CASE title = TitleNaruto -> <<"n", "a">>
      [] title = TitleNarutoAlt -> <<"n", "a">>
      [] title = TitleBleach -> <<"b">>

\* The watched Reviews of the stored Titles with this key
WatchedOfKey(key) ==
    {r \in reviews : r.status = "watched"
        /\ \E a \in anime : a.id = r.anime_id /\ KeyOf(a.title) = key}

\* C7: get_stats returns one entry per normalized title key that has a watched
\* Review, with the mean and the count of the watched Reviews of the key, in
\* order of non-increasing mean, under the title of a stored Title that has a
\* watched Review.
C7_StatsRanksWatched ==
    Ended("get_stats") =>
        LET result == last[1].body[1]
            keys == {k \in {KeyOf(t) : t \in TitleInputs} : WatchedOfKey(k) # {}}
        IN /\ Len(result) = Cardinality(keys)
           /\ {KeyOf(result[i].title) : i \in DOMAIN result} = keys
           /\ \A i \in DOMAIN result :
                LET group == WatchedOfKey(KeyOf(result[i].title))
                IN /\ result[i].review_count = Cardinality(group)
                   /\ result[i].average_rating # None
                   /\ result[i].average_rating[1][1] * Cardinality(group)
                        = RatingTotal(group) * result[i].average_rating[1][2]
                   /\ \E a \in anime :
                        /\ a.title = result[i].title
                        /\ \E r \in reviews : r.anime_id = a.id /\ r.status = "watched"
           /\ \A i, j \in DOMAIN result :
                i < j => result[j].average_rating[1][1] * result[i].average_rating[1][2]
                           <= result[i].average_rating[1][1] * result[j].average_rating[1][2]

\* C7 witness: the ranking has two entries with different means.
C7_Witness ==
    /\ Ended("get_stats")
    /\ Len(last[1].body[1]) = 2
    /\ last[1].body[1][1].average_rating # last[1].body[1][2].average_rating

\* C8: a create_anime with the title of a stored Title ends with 400 and leaves
\* the anime table as it was, and no two stored Titles have the same title.
C8_TitlesAreUnique ==
    /\ [](\A a, b \in anime : a.title = b.title => a = b)
    /\ [][/\ \A p \in Procs :
               (pc[p] = "idle" /\ pc'[p] = "ca_select")
               => ~(\E a \in anime : a.title = req'[p][1].title)
          /\ (pc' = pc /\ Ended("create_anime")'
                 /\ \E a \in anime : a.title = last'[1].req.title)
               => /\ last'[1].code = 400
                  /\ anime' = anime]_vars

\* C8 witness: a duplicate was turned down while the first Title is stored.
C8_Witness ==
    /\ Ended("create_anime")
    /\ last[1].code = 400
    /\ \E a \in anime : a.title = last[1].req.title

\* C9: whenever a request ends, by a response or by an exception, the
\* connection it got from get_db has been closed.
C9_ConnectionReleased ==
    last # None => last[1].conn # "open"

\* C10: an update_review on a stored Review whose status is provided and is not
\* watched or planning is rejected as a validation failure, and no UPDATE has
\* been executed for it.
C10_InvalidStatusRejectedFirst ==
    (/\ Ended("update_review")
     /\ last[1].req.status \notin {None, Some("watched"), Some("planning")}
     /\ last[1].code # 404)
    => /\ last[1].code = 422
       /\ last[1].issued = <<>>

====
